---- MODULE Spec2Model ----
(***************************************************************************)
(* Model of the intelligent upload pipeline of the realm backend           *)
(* (backend/modules/upload/service.py): archive extraction and extension   *)
(* filtering, the Parser and Direct ingestion strategies, the orchestrator *)
(* with its fallback, and the SQLAlchemy unit of work they write through.  *)
(*                                                                         *)
(* Two views of every entity are kept: the ORM object the code mutates     *)
(* (session, project, pendingFiles) and the committed rows another         *)
(* transaction can read (dbSession, dbProjects, dbFiles).  `await          *)
(* db.commit()` flushes the first into the second.                         *)
(*                                                                         *)
(* Strings are sequences of one-character strings, so that suffix,         *)
(* substring and lower-casing are computed as the code computes them.      *)
(* A JSON list column holding None is modelled as the empty sequence: the  *)
(* code only ever tests such a column with `x or []`.                      *)
(***************************************************************************)
EXTENDS Integers, Sequences, FiniteSets, TLC

VARIABLES
    upload,         \* the UploadFile of the request: filename, bytes, content
    parserEnabled,  \* upload_settings.parser_service_enabled
    pc,             \* position of upload_project_intelligent
    session,        \* the UploadSession ORM object
    errSnap,        \* the unit of work's committed_state entry for session.errors
    project,        \* the Project ORM object of the running strategy
    pendingFiles,   \* ProjectFile objects added to the db session, not yet flushed
    dbSession,      \* committed upload_sessions row
    dbProjects,     \* committed projects rows, indexed by id
    dbFiles,        \* committed project_files rows, in insertion order
    files,          \* extracted_files
    response,       \* ParserResponse of the parser call
    idx,            \* loop position in the strategy's file loop
    processed_count,
    failed_count,
    exc,            \* the exception being propagated (its str())
    result,         \* how the orchestrator ended, and what it returned
    directLog,      \* history: per iteration of the Direct loop, whether
                    \* _create_project_file_direct returned or raised
    txState,        \* the AsyncSession: "active", or "inactive" once a commit
                    \* has failed and nobody has called rollback()
    runs,           \* requests served at once: the locals of each
    store           \* requests served at once: the tables they share

vars == << upload, parserEnabled, pc, session, errSnap, project, pendingFiles,
           dbSession, dbProjects, dbFiles, files, response, idx,
           processed_count, failed_count, exc, result, directLog, txState,
           runs, store >>

\* the variables of the single request
singleRunVars ==
    << upload, parserEnabled, pc, session, errSnap, project, pendingFiles,
       dbSession, dbProjects, dbFiles, files, response, idx,
       processed_count, failed_count, exc, result, directLog, txState >>

----------------------------------------------------------------------------
(* Bounds of the model *)

\* longest archive (number of entries) an upload carries
MaxFiles == 3

----------------------------------------------------------------------------
(* Program constants *)

\* upload_settings.max_project_size (MB), the configured default
max_project_size == 500

\* bytes per MB in the size check
BytesPerMB == 1024 * 1024

----------------------------------------------------------------------------
(* Strings *)

Upper == << "A","B","C","D","E","F","G","H","I","J","K","L","M",
            "N","O","P","Q","R","S","T","U","V","W","X","Y","Z" >>

Lowers == << "a","b","c","d","e","f","g","h","i","j","k","l","m",
             "n","o","p","q","r","s","t","u","v","w","x","y","z" >>

\* str.lower() on one character
LowerChar(c) ==
    IF \E k \in 1..26 : Upper[k] = c
    THEN Lowers[CHOOSE k \in 1..26 : Upper[k] = c]
    ELSE c

\* str.lower()
Lower(s) == [k \in 1..Len(s) |-> LowerChar(s[k])]

\* str.endswith(suffix)
EndsWith(s, suf) ==
    /\ Len(suf) <= Len(s)
    /\ SubSeq(s, Len(s) - Len(suf) + 1, Len(s)) = suf

\* str.startswith(prefix)
StartsWith(s, pre) ==
    /\ Len(pre) <= Len(s)
    /\ SubSeq(s, 1, Len(pre)) = pre

\* `pattern in s`
Contains(s, pat) ==
    \E k \in 1..(Len(s) - Len(pat) + 1) : SubSeq(s, k, k + Len(pat) - 1) = pat

\* position of the last c in s, 0 if none (str.rfind, 1-based)
RFind(s, c) ==
    IF \E k \in 1..Len(s) : s[k] = c
    THEN CHOOSE k \in 1..Len(s) : s[k] = c /\ \A j \in (k+1)..Len(s) : s[j] # c
    ELSE 0

\* Path(p).name: the final path component
PathName(p) == SubSeq(p, RFind(p, "/") + 1, Len(p))

\* Path(p).suffix: the last dot of the name starts the suffix unless it is
\* the first or the last character of the name
PathSuffix(p) ==
    LET name == PathName(p)
        k    == RFind(name, ".")
    IN  IF 1 < k /\ k < Len(name) THEN SubSeq(name, k, Len(name)) ELSE << >>

----------------------------------------------------------------------------
(* Configuration *)

allowed_extensions ==
    { <<".","c","b","l">>, <<".","c","o","b">>, <<".","c","p","y">>,
      <<".","j","c","l">>, <<".","C","B","L">>, <<".","C","P","Y">>,
      <<".","J","C","L">>, <<".","C","O","B">> }

archive_suffixes ==
    { <<".","z","i","p">>, <<".","t","a","r">>,
      <<".","t","a","r",".","g","z">>, <<".","t","g","z">> }

skip_patterns ==
    { <<"_","_","p","y","c","a","c","h","e","_","_">>,
      <<".","g","i","t">>,
      <<".","s","v","n">>,
      <<".","h","g">>,
      <<"n","o","d","e","_","m","o","d","u","l","e","s">>,
      <<".","D","S","_","S","t","o","r","e">>,
      <<"T","h","u","m","b","s",".","d","b">>,
      <<".","v","s","c","o","d","e">>,
      <<".","i","d","e","a">>,
      <<"d","i","s","t">>,
      <<"b","u","i","l","d">>,
      <<"t","a","r","g","e","t">>,
      <<"b","i","n">>,
      <<"o","b","j">> }

----------------------------------------------------------------------------
(* Inputs *)

\* Archive entries an upload may hold: path, whether the bytes decode as
\* UTF-8, whether zip_ref.open/read succeeds, and the number of
\* '\n'-separated segments of the decoded text.
EntryPool ==
    { [path |-> <<"a",".","c","b","l">>,         utf8 |-> TRUE,  readable |-> TRUE,  lines |-> 2],
      [path |-> <<"s","/","b",".","C","B","L">>, utf8 |-> TRUE,  readable |-> TRUE,  lines |-> 1],
      [path |-> <<"n",".","x","y","z">>,         utf8 |-> TRUE,  readable |-> TRUE,  lines |-> 1],
      [path |-> <<".","g","i","t","/","c">>,     utf8 |-> TRUE,  readable |-> TRUE,  lines |-> 1],
      [path |-> <<"s","/",".","e">>,             utf8 |-> FALSE, readable |-> TRUE,  lines |-> 3],
      [path |-> <<"m",".","c","b","l">>,         utf8 |-> TRUE,  readable |-> FALSE, lines |-> 1] }

\* sequences of distinct entries, at most n long
EntryLists(n) ==
    { s \in UNION { [1..k -> EntryPool] : k \in 0..n } :
        \A a, b \in DOMAIN s : a # b => s[a] # s[b] }

\* declared filenames of the uploads
ZipName == <<"p",".","Z","I","P">>
TarName == <<"p",".","t","a","r">>
SingleNames == { <<"a",".","c","b","l">>, <<"n",".","x","y","z">> }

Sizes == { max_project_size * BytesPerMB, max_project_size * BytesPerMB + 1 }

\* format: what the bytes really are; entries: the members of a zip
Uploads ==
    [filename : {ZipName}, format : {"zip"}, size : Sizes,
     entries : EntryLists(MaxFiles), utf8 : {TRUE}, lines : {1}]
    \cup
    [filename : {ZipName, TarName}, format : {"tar"}, size : Sizes,
     entries : {<< >>}, utf8 : {FALSE}, lines : {1}]
    \cup
    [filename : SingleNames, format : {"plain"}, size : Sizes,
     entries : {<< >>}, utf8 : BOOLEAN, lines : {2}]

----------------------------------------------------------------------------
(* Extraction and classification *)

\* UploadService._should_skip_file
ShouldSkipFile(filename) ==
    \/ \E pattern \in skip_patterns : Contains(filename, pattern)
    \/ StartsWith(filename, <<".">>)

\* the dict _extract_archive appends for one zip entry
ArchiveFileData(e) ==
    [filename      |-> PathName(e.path),
     relative_path |-> e.path,
     is_binary     |-> ~e.utf8,
     lines         |-> e.lines]

\* UploadService._extract_archive, the loop over zip_ref.infolist()
RECURSIVE ExtractArchive(_)
ExtractArchive(entries) ==
    IF entries = << >> THEN << >>
    ELSE LET e    == Head(entries)
             rest == ExtractArchive(Tail(entries))
         IN  IF ShouldSkipFile(e.path) \/ ~e.readable
             THEN rest
             ELSE << ArchiveFileData(e) >> \o rest

\* mutant: a file without an extension does not pass
PassesFilterWith_RequiresExtension(allow, file_data) ==
    Lower(PathSuffix(file_data.filename)) \in allow

\* the extension test of _extract_project_files, for an allow-list allow
PassesFilterWith(allow, file_data) ==
    LET ext == Lower(PathSuffix(file_data.filename))
    IN  ext \in allow \/ ext = << >>

\* mutant: the filter loop starts at the second file
FilterFilesWith_SkipsFirst(allow, fs) ==
    IF fs = << >> THEN << >>
    ELSE SelectSeq(Tail(fs), LAMBDA f : PassesFilterWith(allow, f))

\* the filter loop of _extract_project_files, for an allow-list allow
RECURSIVE FilterFilesWith(_, _)
FilterFilesWith(allow, fs) ==
    IF fs = << >> THEN << >>
    ELSE IF PassesFilterWith(allow, Head(fs))
         THEN << Head(fs) >> \o FilterFilesWith(allow, Tail(fs))
         ELSE FilterFilesWith(allow, Tail(fs))

\* the extension test under upload_settings.allowed_extensions
PassesFilter(file_data) == PassesFilterWith(allowed_extensions, file_data)

\* the filter loop under upload_settings.allowed_extensions
FilterFiles(fs) == FilterFilesWith(allowed_extensions, fs)

\* filename.lower().endswith(('.zip', '.tar', '.tar.gz', '.tgz'))
IsArchive(filename) == \E suf \in archive_suffixes : EndsWith(Lower(filename), suf)

\* mutant: a payload of exactly the cap is rejected too
TooLarge_AtCap(u) == u.size >= max_project_size * BytesPerMB

\* file_size > upload_settings.max_project_size * 1024 * 1024
TooLarge(u) == u.size > max_project_size * BytesPerMB

\* the single-file branch of _extract_project_files: no is_binary key
SingleFileData(u) ==
    [filename      |-> u.filename,
     relative_path |-> u.filename,
     is_binary     |-> FALSE,
     lines         |-> u.lines]

\* what _extract_project_files raises, "" when it returns
ExtractError(u) ==
    IF TooLarge(u) THEN "FileTooLarge"
    ELSE IF IsArchive(u.filename) /\ u.format # "zip" THEN "BadZipFile"
    ELSE ""

\* what _extract_project_files returns
ExtractProjectFiles(u) ==
    FilterFiles(IF IsArchive(u.filename)
                THEN ExtractArchive(u.entries)
                ELSE << SingleFileData(u) >>)

----------------------------------------------------------------------------
(* Records *)

\* UploadSession as constructed by create_upload_session (column defaults)
NewSession(method) ==
    [status          |-> "active",
     upload_method   |-> method,
     total_files     |-> 0,
     processed_files |-> 0,
     failed_files    |-> 0,
     errors          |-> << >>,
     warnings        |-> << >>,
     project_id      |-> 0]

\* no session object yet (before create_upload_session)
NoSession == [NewSession("none") EXCEPT !.status = "absent"]

\* no Project object; id 0 stands for None
NoProject ==
    [id |-> 0, upload_method |-> "none", upload_status |-> "none",
     parser_response |-> "none"]

NoResponse == [outcome |-> "none", data |-> "none", keys |-> {}]

NoResult == [kind |-> "none", project_id |-> 0]

NoExc == [tag |-> "", arg |-> << >>]

\* the entries of session.errors / session.warnings and str(e) of an exception
Msg(tag, arg) == [tag |-> tag, arg |-> arg]

----------------------------------------------------------------------------
(* The unit of work: AsyncSession.commit() *)

\* No attribute-set event on session.errors since the last flush
NoSnap == [set |-> FALSE, alias |-> FALSE, old |-> << >>]

\* `session.errors = <a new list>`: the first set event since the last flush
\* records the value the attribute had; errors is a plain JSON column
AssignErrors(snap, old) ==
    IF snap.set THEN snap ELSE [set |-> TRUE, alias |-> FALSE, old |-> old]

\* `session.errors = session.errors or []`: a non-empty list is assigned to
\* itself (the recorded old value is the same object, which later appends
\* mutate too); None or [] is replaced by a new list
ReassignErrors(snap, cur) ==
    IF cur = << >> THEN AssignErrors(snap, cur)
    ELSE IF snap.set THEN snap
    ELSE [set |-> TRUE, alias |-> TRUE, old |-> << >>]

\* the flush emits errors only if its value differs from the recorded one
ErrorsDirty(snap, cur) == snap.set /\ ~snap.alias /\ snap.old # cur

\* the upload_sessions row after flushing the session object
FlushSession(mem, row, snap) ==
    IF mem.status = "absent" THEN row
    ELSE [mem EXCEPT !.errors = IF row.status = "absent" \/ ErrorsDirty(snap, mem.errors)
                                THEN mem.errors ELSE row.errors]

\* the projects rows after flushing the project object (INSERT or UPDATE)
FlushProject(p, rows) ==
    IF p.id = 0 THEN rows
    ELSE IF p.id \in DOMAIN rows THEN [rows EXCEPT ![p.id] = p]
    ELSE Append(rows, p)

\* await db.commit(): every pending change of the db session becomes visible
Commit(s, p, pend, snap) ==
    /\ txState = "active"
    /\ dbSession' = FlushSession(s, dbSession, snap)
    /\ dbProjects' = FlushProject(p, dbProjects)
    /\ dbFiles' = dbFiles \o pend
    /\ pendingFiles' = << >>
    /\ errSnap' = NoSnap

----------------------------------------------------------------------------
(* Requests served at once: their locals and the tables they share *)

\* the requests in flight
Runs == { "A", "B" }

\* no UploadFile
NoUpload ==
    [filename |-> << >>, format |-> "none", size |-> 0, entries |-> << >>,
     utf8 |-> TRUE, lines |-> 0]

\* the uploads of the concurrent requests: zips of zero, one and two entries
\* and a tar, all within the size cap
ConcurrentUploads ==
    { u \in Uploads :
        /\ ~TooLarge(u)
        /\ u.format \in {"zip", "tar"}
        /\ u.filename = ZipName
        /\ \/ u.entries = << >>
           \/ /\ u.entries[1].path = <<"a",".","c","b","l">>
              /\ \A k \in DOMAIN u.entries :
                    k > 1 => (k = 2 /\ u.entries[k].path = <<"s","/",".","e">>) }

\* the locals of a request that has not started
IdleRun ==
    [pc |-> "idle", upload |-> NoUpload, session |-> NoSession, errSnap |-> NoSnap,
     project |-> NoProject, pending |-> << >>, files |-> << >>,
     response |-> NoResponse, idx |-> 0, processed_count |-> 0,
     failed_count |-> 0, exc |-> NoExc, result |-> NoResult]

\* the tables before any request has written
EmptyStore ==
    [sessions |-> [r \in Runs |-> NoSession], projects |-> << >>, files |-> << >>]

----------------------------------------------------------------------------
(* Initial state: a request has arrived, nothing has run *)

Init ==
    /\ upload \in Uploads
    /\ parserEnabled \in BOOLEAN
    /\ pc = "start"
    /\ session = NoSession
    /\ errSnap = NoSnap
    /\ project = NoProject
    /\ pendingFiles = << >>
    /\ dbSession = NoSession
    /\ dbProjects = << >>
    /\ dbFiles = << >>
    /\ files = << >>
    /\ response = NoResponse
    /\ idx = 0
    /\ processed_count = 0
    /\ failed_count = 0
    /\ exc = NoExc
    /\ result = NoResult
    /\ directLog = << >>
    /\ txState = "active"
    /\ runs = [r \in Runs |-> IdleRun]
    /\ store = EmptyStore

----------------------------------------------------------------------------
(* upload_project_intelligent *)

\* line 66: session = await self.create_upload_session(db, UploadMethod.PARSER)
CreateSession ==
    /\ pc = "start"
    /\ session' = NewSession("parser")
    /\ Commit(session', project, pendingFiles, errSnap)
    /\ pc' = "extract"
    /\ UNCHANGED << runs, store, upload, parserEnabled, txState, project, files, response, idx,
                    processed_count, failed_count, exc, result, directLog >>

\* line 70, raising: the exception goes to the handler of line 104
ExtractFails ==
    /\ pc = "extract"
    /\ ExtractError(upload) # ""
    /\ exc' = Msg(ExtractError(upload), << >>)
    /\ pc' = "handler"
    /\ UNCHANGED << runs, store, upload, parserEnabled, txState, session, errSnap, project,
                    pendingFiles, dbSession, dbProjects, dbFiles, files,
                    response, idx, processed_count, failed_count, result, directLog >>

\* mutant: the orchestrator tries the parser whatever the configuration says
ExtractAndCount_IgnoresFlag ==
    /\ pc = "extract"
    /\ ExtractError(upload) = ""
    /\ files' = ExtractProjectFiles(upload)
    /\ session' = [session EXCEPT !.total_files = Len(files')]
    /\ Commit(session', project, pendingFiles, errSnap)
    /\ pc' = "parser_call"
    /\ UNCHANGED << runs, store, upload, parserEnabled, txState, project, response, idx,
                    processed_count, failed_count, exc, result, directLog >>

\* lines 70-77: extract, record total_files, commit, choose the strategy
ExtractAndCount ==
    /\ pc = "extract"
    /\ ExtractError(upload) = ""
    /\ files' = ExtractProjectFiles(upload)
    /\ session' = [session EXCEPT !.total_files = Len(files')]
    /\ Commit(session', project, pendingFiles, errSnap)
    /\ pc' = IF parserEnabled THEN "parser_call" ELSE "direct_create"
    /\ UNCHANGED << runs, store, upload, parserEnabled, txState, project, response, idx,
                    processed_count, failed_count, exc, result, directLog >>

----------------------------------------------------------------------------
(* _upload_via_parser *)

\* how the POST /parse call can end
ParserOutcomes == {"request_error", "http_status", "invalid", "success_false", "ok"}

\* the `data` of a success response: null, an object, or an object whose
\* "files" member is not an object
ParserDataShapes == {"null", "object", "bad_files"}

\* relative paths the response carries a per-file payload for
PayloadKeySets(fs) ==
    { {}, { fs[k].relative_path : k \in DOMAIN fs } }
    \cup (IF fs = << >> THEN {} ELSE { { fs[1].relative_path } })

\* str() of the exception _upload_via_parser raises for a failed call
ParserCallError(outcome) ==
    CASE outcome = "request_error" -> Msg("Parser service unavailable", << >>)
      [] outcome = "http_status"   -> Msg("Parser service error", << >>)
      [] outcome = "invalid"       -> Msg("ValidationError", << >>)
      [] outcome = "success_false" -> Msg("Parser failed", << >>)

\* lines 275-284, failing: RequestError, HTTPStatusError, a body that is not
\* a ParserResponse, or success = false
ParserCallFails ==
    /\ pc = "parser_call"
    /\ \E outcome \in ParserOutcomes \ {"ok"} :
         /\ response' = [outcome |-> outcome, data |-> "none", keys |-> {}]
         /\ exc' = ParserCallError(outcome)
    /\ pc' = "fallback"
    /\ UNCHANGED << runs, store, upload, parserEnabled, txState, session, errSnap, project,
                    pendingFiles, dbSession, dbProjects, dbFiles, files, idx,
                    processed_count, failed_count, result, directLog >>

\* lines 275-300: a success response; the Project is added and committed
ParserCreateProject ==
    /\ pc = "parser_call"
    /\ \E data \in ParserDataShapes, keys \in PayloadKeySets(files) :
         /\ data # "object" => keys = {}
         /\ response' = [outcome |-> "ok", data |-> data, keys |-> keys]
         /\ project' = [id              |-> Len(dbProjects) + 1,
                        upload_method   |-> "parser",
                        upload_status   |-> "processing",
                        parser_response |-> data]
    /\ Commit(session, project', pendingFiles, errSnap)
    /\ idx' = 1
    /\ pc' = "parser_files"
    /\ UNCHANGED << runs, store, upload, parserEnabled, txState, session, files, processed_count,
                    failed_count, exc, result, directLog >>

\* the ProjectFile _create_project_files_from_parser builds for file_data
ParserProjectFile(p, resp, file_data) ==
    [project_id    |-> p.id,
     filename      |-> file_data.filename,
     relative_path |-> file_data.relative_path,
     parsed_data   |-> IF file_data.relative_path \in resp.keys
                       THEN "payload" ELSE "null",
     is_binary     |-> file_data.is_binary,
     loc           |-> IF file_data.is_binary THEN 0 ELSE file_data.lines]

\* lines 422-437, one iteration: the ProjectFile is added to the db session
ParserCreateFile ==
    /\ pc = "parser_files"
    /\ idx <= Len(files)
    /\ response.data = "object"
    /\ pendingFiles' = Append(pendingFiles, ParserProjectFile(project, response, files[idx]))
    /\ idx' = idx + 1
    /\ UNCHANGED << runs, store, upload, parserEnabled, txState, pc, session, errSnap, project,
                    dbSession, dbProjects, dbFiles, files, response,
                    processed_count, failed_count, exc, result, directLog >>

\* mutant: the Parser strategy marks the session failed when its loop fails
ParserCreateFileFails_MarksFailed ==
    /\ pc = "parser_files"
    /\ idx <= Len(files)
    /\ \E simulated \in BOOLEAN :
         /\ simulated \/ response.data # "object"
         /\ exc' = IF response.data # "object"
                   THEN Msg("AttributeError", << >>)
                   ELSE Msg("Simulated failure", files[idx].filename)
    /\ session' = [session EXCEPT !.status = "failed"]
    /\ pc' = "fallback"
    /\ UNCHANGED << runs, store, upload, parserEnabled, txState, errSnap, project,
                    pendingFiles, dbSession, dbProjects, dbFiles, files,
                    response, idx, processed_count, failed_count, result, directLog >>

\* lines 422-437, one iteration raising: parser_data.get(...) on a null data
\* or a non-object "files" member (AttributeError), or a simulated failure
\* while the record is built; the exception leaves _upload_via_parser
ParserCreateFileFails ==
    /\ pc = "parser_files"
    /\ idx <= Len(files)
    /\ \E simulated \in BOOLEAN :
         /\ simulated \/ response.data # "object"
         /\ exc' = IF response.data # "object"
                   THEN Msg("AttributeError", << >>)
                   ELSE Msg("Simulated failure", files[idx].filename)
    /\ pc' = "fallback"
    /\ UNCHANGED << runs, store, upload, parserEnabled, txState, session, errSnap, project,
                    pendingFiles, dbSession, dbProjects, dbFiles, files,
                    response, idx, processed_count, failed_count, result, directLog >>

\* mutant: the orchestrator does not return after a Parser success and runs
\* the Direct strategy as well
ParserFinalize_FallsThrough ==
    /\ pc = "parser_files"
    /\ idx > Len(files)
    /\ session' = [session EXCEPT !.project_id = project.id,
                                  !.status = "completed",
                                  !.processed_files = Len(files)]
    /\ project' = [project EXCEPT !.upload_status = "completed"]
    /\ Commit(session', project', pendingFiles, errSnap)
    /\ pc' = "direct_create"
    /\ UNCHANGED << runs, store, upload, parserEnabled, txState, files, response, idx,
                    processed_count, failed_count, exc, result, directLog >>

\* lines 307-316 and 83-84: final status, commit, return project, session
ParserFinalize ==
    /\ pc = "parser_files"
    /\ idx > Len(files)
    /\ session' = [session EXCEPT !.project_id = project.id,
                                  !.status = "completed",
                                  !.processed_files = Len(files)]
    /\ project' = [project EXCEPT !.upload_status = "completed"]
    /\ Commit(session', project', pendingFiles, errSnap)
    /\ result' = [kind |-> "returned", project_id |-> project.id]
    /\ pc' = "done"
    /\ UNCHANGED << runs, store, upload, parserEnabled, txState, files, response, idx,
                    processed_count, failed_count, exc, directLog >>


\* mutant: the fallback records the error but leaves upload_method alone
FallbackSession_KeepsMethod(s, e) ==
    [s EXCEPT !.errors = << Msg("Parser failed", << e.tag >> \o e.arg) >>]

\* the session after lines 92-93
FallbackSession(s, e) ==
    [s EXCEPT !.upload_method = "direct",
              !.errors = << Msg("Parser failed", << e.tag >> \o e.arg) >>]

\* lines 86-94: the except branch around _upload_via_parser
ParserFallback ==
    /\ pc = "fallback"
    /\ session' = FallbackSession(session, exc)
    /\ Commit(session', project, pendingFiles, AssignErrors(errSnap, session.errors))
    /\ exc' = NoExc
    /\ pc' = "direct_create"
    /\ UNCHANGED << runs, store, upload, parserEnabled, txState, project, files, response, idx,
                    processed_count, failed_count, result, directLog >>

----------------------------------------------------------------------------
(* _upload_direct *)

\* lines 331-347: the Project is added and committed, the counters start at 0
DirectCreateProject ==
    /\ pc = "direct_create"
    /\ project' = [id              |-> Len(dbProjects) + 1,
                   upload_method   |-> "direct",
                   upload_status   |-> "processing",
                   parser_response |-> "none"]
    /\ Commit(session, project', pendingFiles, errSnap)
    /\ processed_count' = 0
    /\ failed_count' = 0
    /\ idx' = 1
    /\ pc' = "direct_files"
    /\ UNCHANGED << runs, store, upload, parserEnabled, txState, session, files, response, exc, result, directLog >>

\* the ProjectFile _create_project_file_direct builds for file_data
DirectProjectFile(p, file_data) ==
    [project_id    |-> p.id,
     filename      |-> file_data.filename,
     relative_path |-> file_data.relative_path,
     parsed_data   |-> "null",
     is_binary     |-> file_data.is_binary,
     loc           |-> IF file_data.is_binary THEN 0 ELSE file_data.lines]


\* mutant: the loop commits after every stored file
DirectFileStored_CommitsEach ==
    /\ pc = "direct_files"
    /\ idx <= Len(files)
    /\ processed_count' = processed_count + 1
    /\ session' = [session EXCEPT !.processed_files = processed_count']
    /\ Commit(session', project,
              Append(pendingFiles, DirectProjectFile(project, files[idx])), errSnap)
    /\ directLog' = Append(directLog, [file |-> files[idx], stored |-> TRUE])
    /\ idx' = idx + 1
    /\ UNCHANGED << runs, store, upload, parserEnabled, txState, pc, project, files, response,
                    failed_count, exc, result >>

\* lines 350-365, one iteration: the record is added to the db session (no
\* commit) and the progress counter of the session follows
DirectFileStored ==
    /\ pc = "direct_files"
    /\ idx <= Len(files)
    /\ pendingFiles' = Append(pendingFiles, DirectProjectFile(project, files[idx]))
    /\ processed_count' = processed_count + 1
    /\ session' = [session EXCEPT !.processed_files = processed_count']
    /\ directLog' = Append(directLog, [file |-> files[idx], stored |-> TRUE])
    /\ idx' = idx + 1
    /\ UNCHANGED << runs, store, upload, parserEnabled, txState, pc, errSnap, project, dbSession,
                    dbProjects, dbFiles, files, response, failed_count, exc,
                    result >>


\* mutant: a per-file failure marks the whole session failed at once
RecordFileError_FailsSession(s, file_data) ==
    [s EXCEPT !.status = "failed",
              !.errors = Append(s.errors, Msg("Failed to process", file_data.filename))]

\* mutant: the per-file error replaces the error list
RecordFileError_Overwrites(s, file_data) ==
    [s EXCEPT !.errors = << Msg("Failed to process", file_data.filename) >>]

\* the session after lines 369-370
RecordFileError(s, file_data) ==
    [s EXCEPT !.errors = Append(s.errors, Msg("Failed to process", file_data.filename))]


\* mutant: the record is added to the db session before the failure is raised
DirectFileFails_AddsRecord ==
    /\ pc = "direct_files"
    /\ idx <= Len(files)
    /\ failed_count' = failed_count + 1
    /\ errSnap' = ReassignErrors(errSnap, session.errors)
    /\ session' = [session EXCEPT !.errors =
                       Append(session.errors, Msg("Failed to process", files[idx].filename))]
    /\ pendingFiles' = Append(pendingFiles,
                              [project_id    |-> project.id,
                               filename      |-> files[idx].filename,
                               relative_path |-> files[idx].relative_path,
                               parsed_data   |-> "null",
                               is_binary     |-> files[idx].is_binary,
                               loc           |-> 0])
    /\ directLog' = Append(directLog, [file |-> files[idx], stored |-> FALSE])
    /\ idx' = idx + 1
    /\ UNCHANGED << runs, store, upload, parserEnabled, txState, pc, project, dbSession, dbProjects,
                    dbFiles, files, response, processed_count, exc, result >>

\* lines 367-374, one iteration whose _create_project_file_direct raised:
\* nothing is added, the failure is counted and recorded in place
DirectFileFails ==
    /\ pc = "direct_files"
    /\ idx <= Len(files)
    /\ failed_count' = failed_count + 1
    /\ errSnap' = ReassignErrors(errSnap, session.errors)
    /\ session' = RecordFileError(session, files[idx])
    /\ directLog' = Append(directLog, [file |-> files[idx], stored |-> FALSE])
    /\ idx' = idx + 1
    /\ UNCHANGED << runs, store, upload, parserEnabled, txState, pc, project, pendingFiles,
                    dbSession, dbProjects, dbFiles, files, response,
                    processed_count, exc, result >>

\* mutant: a single failed file fails the whole upload
DirectFinalStatus_AnyFailureFails(processed, failed) ==
    IF failed = 0
    THEN [session |-> "completed", project |-> "completed", warnings |-> << >>]
    ELSE [session |-> "failed", project |-> "failed", warnings |-> << >>]

\* lines 380-405: the final status policy
DirectFinalStatus(processed, failed) ==
    IF failed = 0
    THEN [session |-> "completed", project |-> "completed", warnings |-> << >>]
    ELSE IF processed > 0
    THEN [session |-> "completed", project |-> "completed",
          warnings |-> << [tag |-> "files failed to process", n |-> failed] >>]
    ELSE [session |-> "failed", project |-> "failed", warnings |-> << >>]


\* mutant: the failed counter is set to the number of files attempted
DirectFinalSession_CountsAll(s, p, processed, failed) ==
    LET final == DirectFinalStatus(processed, failed)
    IN  [s EXCEPT !.project_id = p.id,
                  !.failed_files = IF failed = 0 THEN 0 ELSE processed + failed,
                  !.status = final.session,
                  !.warnings = IF final.warnings = << >> THEN s.warnings
                               ELSE final.warnings]

\* the session after lines 377-405
DirectFinalSession(s, p, processed, failed) ==
    LET final == DirectFinalStatus(processed, failed)
    IN  [s EXCEPT !.project_id = p.id,
                  !.failed_files = failed,
                  !.status = final.session,
                  !.warnings = IF final.warnings = << >> THEN s.warnings
                               ELSE final.warnings]


\* mutant: the final counters are committed without failed_files
DirectFinalize_DropsFailedCount ==
    /\ pc = "direct_files"
    /\ idx > Len(files)
    /\ session' = [DirectFinalSession(session, project, processed_count, failed_count)
                      EXCEPT !.failed_files = session.failed_files]
    /\ project' = [project EXCEPT !.upload_status =
                       DirectFinalStatus(processed_count, failed_count).project]
    /\ Commit(session', project', pendingFiles, errSnap)
    /\ result' = [kind |-> "returned", project_id |-> project.id]
    /\ pc' = "done"
    /\ UNCHANGED << runs, store, upload, parserEnabled, txState, files, response, idx,
                    processed_count, failed_count, exc, directLog >>

\* lines 376-411 and 101-102: final status, the single commit, return
DirectFinalize ==
    /\ pc = "direct_files"
    /\ idx > Len(files)
    /\ session' = DirectFinalSession(session, project, processed_count, failed_count)
    /\ project' = [project EXCEPT !.upload_status =
                       DirectFinalStatus(processed_count, failed_count).project]
    /\ Commit(session', project', pendingFiles, errSnap)
    /\ result' = [kind |-> "returned", project_id |-> project.id]
    /\ pc' = "done"
    /\ UNCHANGED << runs, store, upload, parserEnabled, txState, files, response, idx,
                    processed_count, failed_count, exc, directLog >>

----------------------------------------------------------------------------
(* The orchestrator boundary *)


\* mutant: the handler marks the session failed without recording the error
FailedSession_NoError(s, e) ==
    [s EXCEPT !.status = "failed"]

\* the session after lines 105-107
FailedSession(s, e) ==
    [s EXCEPT !.status = "failed", !.errors = Append(s.errors, e)]

\* lines 104-110: mark the session failed, record str(e), commit, raise
HandleFailure ==
    /\ pc = "handler"
    /\ session' = FailedSession(session, exc)
    /\ Commit(session', project, pendingFiles, ReassignErrors(errSnap, session.errors))
    /\ result' = [kind |-> "raised", project_id |-> 0]
    /\ pc' = "done"
    /\ UNCHANGED << runs, store, upload, parserEnabled, txState, project, files, response, idx,
                    processed_count, failed_count, exc, directLog >>


\* project_router.upload_project: what the HTTP caller receives for a run
\* that ended with res, the session object being s
RouterResponse(res, s) ==
    IF res.kind = "returned"
    THEN [success       |-> TRUE,
          project_id    |-> res.project_id,
          upload_method |-> s.upload_method,
          warnings      |-> s.warnings]
    ELSE [success       |-> FALSE,
          project_id    |-> 0,
          upload_method |-> "none",
          warnings      |-> << >>]

----------------------------------------------------------------------------
(* Failing commits of an ingestion attempt.  A commit whose flush fails     *)
(* rolls the transaction back: the pending objects are expunged, nothing   *)
(* reaches the database, the loaded objects are expired (the model keeps   *)
(* the committed row as their value), and the db session stays inactive    *)
(* until rollback() is called.  The service never calls rollback(): only   *)
(* get_db does, after the request has ended.                               *)

\* await db.commit() raising
CommitFails ==
    /\ txState = "active"
    /\ txState' = "inactive"
    /\ pendingFiles' = << >>
    /\ errSnap' = NoSnap
    /\ session' = dbSession
    /\ UNCHANGED << dbSession, dbProjects, dbFiles >>

\* lines 298-299 raising: the exception leaves _upload_via_parser
ParserCreateProjectCommitFails ==
    /\ pc = "parser_call"
    /\ \E data \in ParserDataShapes, keys \in PayloadKeySets(files) :
         /\ data # "object" => keys = {}
         /\ response' = [outcome |-> "ok", data |-> data, keys |-> keys]
    /\ CommitFails
    /\ project' = NoProject
    /\ exc' = Msg("PersistenceError", << >>)
    /\ pc' = "fallback"
    /\ UNCHANGED << runs, store, upload, parserEnabled, files, idx, processed_count,
                    failed_count, result, directLog >>

\* line 314 raising, after lines 308-312 have assigned the final values
ParserFinalizeCommitFails ==
    /\ pc = "parser_files"
    /\ idx > Len(files)
    /\ CommitFails
    /\ project' = dbProjects[project.id]
    /\ exc' = Msg("PersistenceError", << >>)
    /\ pc' = "fallback"
    /\ UNCHANGED << runs, store, upload, parserEnabled, files, response, idx,
                    processed_count, failed_count, result, directLog >>

\* lines 341-342 raising: the exception goes to the handler of line 104
DirectCreateProjectCommitFails ==
    /\ pc = "direct_create"
    /\ CommitFails
    /\ project' = NoProject
    /\ exc' = Msg("PersistenceError", << >>)
    /\ pc' = "handler"
    /\ UNCHANGED << runs, store, upload, parserEnabled, files, response, idx,
                    processed_count, failed_count, result, directLog >>

\* line 407 raising, after lines 377-405 have assigned the final values
DirectFinalizeCommitFails ==
    /\ pc = "direct_files"
    /\ idx > Len(files)
    /\ CommitFails
    /\ project' = dbProjects[project.id]
    /\ exc' = Msg("PersistenceError", << >>)
    /\ pc' = "handler"
    /\ UNCHANGED << runs, store, upload, parserEnabled, files, response, idx,
                    processed_count, failed_count, result, directLog >>

\* lines 86-94 on an inactive db session: the commit of line 94 raises and
\* the exception goes to the handler of line 104
ParserFallbackCommitRaises ==
    /\ pc = "fallback"
    /\ txState = "inactive"
    /\ session' = FallbackSession(session, exc)
    /\ exc' = Msg("PendingRollbackError", << >>)
    /\ pc' = "handler"
    /\ UNCHANGED << runs, store, upload, parserEnabled, txState, errSnap, project, pendingFiles,
                    dbSession, dbProjects, dbFiles, files, response, idx,
                    processed_count, failed_count, result, directLog >>

\* lines 104-108 on an inactive db session: the handler cannot store the
\* failed status, its own exception leaves upload_project_intelligent
HandleFailureCommitRaises ==
    /\ pc = "handler"
    /\ txState = "inactive"
    /\ session' = [session EXCEPT !.status = "failed"]
    /\ result' = [kind |-> "raised", project_id |-> 0]
    /\ pc' = "done"
    /\ UNCHANGED << runs, store, upload, parserEnabled, txState, errSnap, project, pendingFiles,
                    dbSession, dbProjects, dbFiles, files, response, idx,
                    processed_count, failed_count, exc, directLog >>

----------------------------------------------------------------------------
(* Specification: one orchestrator run over reliable commits.  The faults   *)
(* are a failing extraction, a failing parser call, an unusable or failing *)
(* parser file loop, and failing per-file record creation.                  *)

Next ==
    \/ CreateSession
    \/ ExtractFails
    \/ ExtractAndCount
    \/ ParserCallFails
    \/ ParserCreateProject
    \/ ParserCreateFile
    \/ ParserCreateFileFails
    \/ ParserFinalize
    \/ ParserFallback
    \/ DirectCreateProject
    \/ DirectFileStored
    \/ DirectFileFails
    \/ DirectFinalize
    \/ HandleFailure

Spec == Init /\ [][Next]_vars

\* one orchestrator run in which a commit of an ingestion attempt may fail
NextFault ==
    \/ Next
    \/ ParserCreateProjectCommitFails
    \/ ParserFinalizeCommitFails
    \/ DirectCreateProjectCommitFails
    \/ DirectFinalizeCommitFails
    \/ ParserFallbackCommitRaises
    \/ HandleFailureCommitRaises

SpecFault == Init /\ [][NextFault]_vars

----------------------------------------------------------------------------
(* Two requests served at once.  Each request has its own AsyncSession      *)
(* (get_db) and its own locals; the UploadService instance they share holds *)
(* only the HTTP client.  The database is shared: upload_sessions rows are  *)
(* keyed by the request's session_id (a fresh uuid4), projects ids come     *)
(* from the table's autoincrement, assigned by the INSERT of the commit.    *)
(* Rows carry the request that wrote them in `by` (history).                *)

\* one ProjectFile row per pending object, written by request r
RowsBy(r, pend) == [k \in DOMAIN pend |-> [row |-> pend[k], by |-> r]]

\* await db.commit() of request r: its pending changes reach the tables
StoreCommit(r, s, p, pend, snap) ==
    [sessions |-> [store.sessions EXCEPT ![r] = FlushSession(s, @, snap)],
     projects |-> IF p.id = 0 THEN store.projects
                  ELSE IF p.id \in DOMAIN store.projects
                  THEN [store.projects EXCEPT ![p.id] = [row |-> p, by |-> @.by]]
                  ELSE Append(store.projects, [row |-> p, by |-> r]),
     files    |-> store.files \o RowsBy(r, pend)]

\* the locals of a request after its commit: nothing pending any more
AfterCommit(me) == [me EXCEPT !.pending = << >>, !.errSnap = NoSnap]

\* line 66 in request r
RunCreateSession(r) ==
    LET me == runs[r]
        s  == NewSession("parser")
    IN  /\ me.pc = "start"
        /\ store' = StoreCommit(r, s, me.project, me.pending, me.errSnap)
        /\ runs' = [runs EXCEPT ![r] =
                       AfterCommit([me EXCEPT !.session = s, !.pc = "extract"])]
        /\ UNCHANGED singleRunVars

\* line 70 raising in request r
RunExtractFails(r) ==
    LET me == runs[r]
    IN  /\ me.pc = "extract"
        /\ ExtractError(me.upload) # ""
        /\ runs' = [runs EXCEPT ![r] =
                       [me EXCEPT !.exc = Msg(ExtractError(me.upload), << >>),
                                  !.pc = "handler"]]
        /\ UNCHANGED << store, singleRunVars >>

\* lines 70-77 in request r
RunExtractAndCount(r) ==
    LET me == runs[r]
        fs == ExtractProjectFiles(me.upload)
        s  == [me.session EXCEPT !.total_files = Len(fs)]
    IN  /\ me.pc = "extract"
        /\ ExtractError(me.upload) = ""
        /\ store' = StoreCommit(r, s, me.project, me.pending, me.errSnap)
        /\ runs' = [runs EXCEPT ![r] =
                       AfterCommit([me EXCEPT !.files = fs, !.session = s,
                                              !.pc = IF parserEnabled THEN "parser_call"
                                                     ELSE "direct_create"])]
        /\ UNCHANGED singleRunVars

\* lines 275-284 failing in request r
RunParserCallFails(r) ==
    LET me == runs[r]
    IN  /\ me.pc = "parser_call"
        /\ \E outcome \in ParserOutcomes \ {"ok"} :
             runs' = [runs EXCEPT ![r] =
                         [me EXCEPT !.response = [outcome |-> outcome, data |-> "none",
                                                  keys |-> {}],
                                    !.exc = ParserCallError(outcome),
                                    !.pc = "fallback"]]
        /\ UNCHANGED << store, singleRunVars >>

\* lines 275-300 in request r: the INSERT gives the Project the next id
RunParserCreateProject(r) ==
    LET me == runs[r]
    IN  /\ me.pc = "parser_call"
        /\ \E data \in ParserDataShapes, keys \in PayloadKeySets(me.files) :
             LET p == [id              |-> Len(store.projects) + 1,
                       upload_method   |-> "parser",
                       upload_status   |-> "processing",
                       parser_response |-> data]
             IN  /\ data # "object" => keys = {}
                 /\ store' = StoreCommit(r, me.session, p, me.pending, me.errSnap)
                 /\ runs' = [runs EXCEPT ![r] =
                                AfterCommit([me EXCEPT
                                    !.response = [outcome |-> "ok", data |-> data,
                                                  keys |-> keys],
                                    !.project = p, !.idx = 1, !.pc = "parser_files"])]
        /\ UNCHANGED singleRunVars

\* lines 422-437, one iteration in request r
RunParserCreateFile(r) ==
    LET me == runs[r]
    IN  /\ me.pc = "parser_files"
        /\ me.idx <= Len(me.files)
        /\ me.response.data = "object"
        /\ runs' = [runs EXCEPT ![r] =
                       [me EXCEPT !.pending = Append(me.pending,
                                      ParserProjectFile(me.project, me.response,
                                                        me.files[me.idx])),
                                  !.idx = me.idx + 1]]
        /\ UNCHANGED << store, singleRunVars >>

\* lines 422-437, one iteration raising in request r
RunParserCreateFileFails(r) ==
    LET me == runs[r]
    IN  /\ me.pc = "parser_files"
        /\ me.idx <= Len(me.files)
        /\ \E simulated \in BOOLEAN :
             /\ simulated \/ me.response.data # "object"
             /\ runs' = [runs EXCEPT ![r] =
                            [me EXCEPT !.exc = IF me.response.data # "object"
                                               THEN Msg("AttributeError", << >>)
                                               ELSE Msg("Simulated failure",
                                                        me.files[me.idx].filename),
                                       !.pc = "fallback"]]
        /\ UNCHANGED << store, singleRunVars >>

\* lines 307-316 and 83-84 in request r
RunParserFinalize(r) ==
    LET me == runs[r]
        s  == [me.session EXCEPT !.project_id = me.project.id,
                                 !.status = "completed",
                                 !.processed_files = Len(me.files)]
        p  == [me.project EXCEPT !.upload_status = "completed"]
    IN  /\ me.pc = "parser_files"
        /\ me.idx > Len(me.files)
        /\ store' = StoreCommit(r, s, p, me.pending, me.errSnap)
        /\ runs' = [runs EXCEPT ![r] =
                       AfterCommit([me EXCEPT !.session = s, !.project = p,
                                              !.result = [kind |-> "returned",
                                                          project_id |-> p.id],
                                              !.pc = "done"])]
        /\ UNCHANGED singleRunVars

\* lines 86-94 in request r
RunParserFallback(r) ==
    LET me == runs[r]
        s  == FallbackSession(me.session, me.exc)
    IN  /\ me.pc = "fallback"
        /\ store' = StoreCommit(r, s, me.project, me.pending,
                                AssignErrors(me.errSnap, me.session.errors))
        /\ runs' = [runs EXCEPT ![r] =
                       AfterCommit([me EXCEPT !.session = s, !.exc = NoExc,
                                              !.pc = "direct_create"])]
        /\ UNCHANGED singleRunVars

\* lines 331-347 in request r: the INSERT gives the Project the next id
RunDirectCreateProject(r) ==
    LET me == runs[r]
        p  == [id              |-> Len(store.projects) + 1,
               upload_method   |-> "direct",
               upload_status   |-> "processing",
               parser_response |-> "none"]
    IN  /\ me.pc = "direct_create"
        /\ store' = StoreCommit(r, me.session, p, me.pending, me.errSnap)
        /\ runs' = [runs EXCEPT ![r] =
                       AfterCommit([me EXCEPT !.project = p, !.processed_count = 0,
                                              !.failed_count = 0, !.idx = 1,
                                              !.pc = "direct_files"])]
        /\ UNCHANGED singleRunVars

\* lines 350-365, one iteration in request r
RunDirectFileStored(r) ==
    LET me == runs[r]
    IN  /\ me.pc = "direct_files"
        /\ me.idx <= Len(me.files)
        /\ runs' = [runs EXCEPT ![r] =
                       [me EXCEPT !.pending = Append(me.pending,
                                      DirectProjectFile(me.project, me.files[me.idx])),
                                  !.processed_count = me.processed_count + 1,
                                  !.session = [me.session EXCEPT
                                      !.processed_files = me.processed_count + 1],
                                  !.idx = me.idx + 1]]
        /\ UNCHANGED << store, singleRunVars >>

\* lines 367-374, one iteration raising in request r
RunDirectFileFails(r) ==
    LET me == runs[r]
    IN  /\ me.pc = "direct_files"
        /\ me.idx <= Len(me.files)
        /\ runs' = [runs EXCEPT ![r] =
                       [me EXCEPT !.failed_count = me.failed_count + 1,
                                  !.errSnap = ReassignErrors(me.errSnap, me.session.errors),
                                  !.session = RecordFileError(me.session, me.files[me.idx]),
                                  !.idx = me.idx + 1]]
        /\ UNCHANGED << store, singleRunVars >>

\* lines 376-411 and 102 in request r
RunDirectFinalize(r) ==
    LET me == runs[r]
        s  == DirectFinalSession(me.session, me.project, me.processed_count,
                                 me.failed_count)
        p  == [me.project EXCEPT !.upload_status =
                   DirectFinalStatus(me.processed_count, me.failed_count).project]
    IN  /\ me.pc = "direct_files"
        /\ me.idx > Len(me.files)
        /\ store' = StoreCommit(r, s, p, me.pending, me.errSnap)
        /\ runs' = [runs EXCEPT ![r] =
                       AfterCommit([me EXCEPT !.session = s, !.project = p,
                                              !.result = [kind |-> "returned",
                                                          project_id |-> p.id],
                                              !.pc = "done"])]
        /\ UNCHANGED singleRunVars

\* lines 104-110 in request r
RunHandleFailure(r) ==
    LET me == runs[r]
        s  == FailedSession(me.session, me.exc)
    IN  /\ me.pc = "handler"
        /\ store' = StoreCommit(r, s, me.project, me.pending,
                                ReassignErrors(me.errSnap, me.session.errors))
        /\ runs' = [runs EXCEPT ![r] =
                       AfterCommit([me EXCEPT !.session = s,
                                              !.result = [kind |-> "raised",
                                                          project_id |-> 0],
                                              !.pc = "done"])]
        /\ UNCHANGED singleRunVars

\* the requests start together, each with its own upload
InitConcurrent ==
    /\ runs \in [Runs -> { [IdleRun EXCEPT !.pc = "start", !.upload = u] :
                             u \in ConcurrentUploads }]
    /\ store = EmptyStore
    /\ parserEnabled \in BOOLEAN
    /\ upload = NoUpload
    /\ pc = "idle"
    /\ session = NoSession
    /\ errSnap = NoSnap
    /\ project = NoProject
    /\ pendingFiles = << >>
    /\ dbSession = NoSession
    /\ dbProjects = << >>
    /\ dbFiles = << >>
    /\ files = << >>
    /\ response = NoResponse
    /\ idx = 0
    /\ processed_count = 0
    /\ failed_count = 0
    /\ exc = NoExc
    /\ result = NoResult
    /\ directLog = << >>
    /\ txState = "active"

\* any request takes its next step
NextConcurrent ==
    \E r \in Runs :
        \/ RunCreateSession(r)
        \/ RunExtractFails(r)
        \/ RunExtractAndCount(r)
        \/ RunParserCallFails(r)
        \/ RunParserCreateProject(r)
        \/ RunParserCreateFile(r)
        \/ RunParserCreateFileFails(r)
        \/ RunParserFinalize(r)
        \/ RunParserFallback(r)
        \/ RunDirectCreateProject(r)
        \/ RunDirectFileStored(r)
        \/ RunDirectFileFails(r)
        \/ RunDirectFinalize(r)
        \/ RunHandleFailure(r)

SpecConcurrent == InitConcurrent /\ [][NextConcurrent]_vars

----------------------------------------------------------------------------
(* Vocabulary of the properties *)

\* the run has ended, by returning or by raising
RunEnded == pc = "done"

\* the POST /parse call itself failed (transport, status, body, success=false)
ParserCallFailed == response.outcome \in ParserOutcomes \ {"ok"}

\* the Parser strategy was entered and left by an exception
ParserAttemptFailed ==
    /\ response.outcome # "none"
    /\ \/ pc \in {"fallback", "direct_create", "direct_files"}
       \/ RunEnded /\ project.upload_method = "direct"

\* _upload_direct has returned its project
DirectReturned ==
    RunEnded /\ result.kind = "returned" /\ project.upload_method = "direct"

\* committed project_files rows of project id, in insertion order
RECURSIVE RowsOf(_, _)
RowsOf(rows, id) ==
    IF rows = << >> THEN << >>
    ELSE IF Head(rows).project_id = id
         THEN << Head(rows) >> \o RowsOf(Tail(rows), id)
         ELSE RowsOf(Tail(rows), id)

\* the files of the Direct loop whose record creation returned, in order
RECURSIVE StoredFiles(_)
StoredFiles(log) ==
    IF log = << >> THEN << >>
    ELSE IF Head(log).stored
         THEN << Head(log).file >> \o StoredFiles(Tail(log))
         ELSE StoredFiles(Tail(log))

HasParserFailedEntry(errors) ==
    \E k \in DOMAIN errors : errors[k].tag = "Parser failed"

----------------------------------------------------------------------------
(* C1 - C10 *)

\* C1: whenever the parser call failed and at least one file survived
\* filtering, the run goes on until it ends, and it ends with the session's
\* upload_method equal to direct (in the object returned and in the stored
\* row), an error entry "Parser failed: ..." and a Project of the Direct
\* strategy returned to the caller.
C1_FallbackCorrectness ==
    (ParserCallFailed /\ Len(files) >= 1) =>
        IF RunEnded
        THEN /\ session.upload_method = "direct"
             /\ dbSession.upload_method = "direct"
             /\ HasParserFailedEntry(session.errors)
             /\ HasParserFailedEntry(dbSession.errors)
             /\ result.kind = "returned"
             /\ result.project_id \in DOMAIN dbProjects
             /\ dbProjects[result.project_id].upload_method = "direct"
        ELSE ENABLED Next

C1_Witness ==
    /\ RunEnded
    /\ response.outcome = "http_status"
    /\ Len(files) >= 1
    /\ result.kind = "returned"
    /\ session.upload_method = "direct"

\* C2 (as claimed): after a Parser attempt that failed, the committed store
\* holds no Project row of that attempt and no ProjectFile row of it.
C2_ParserAllOrNothing ==
    ParserAttemptFailed =>
        /\ \A id \in DOMAIN dbProjects : dbProjects[id].upload_method # "parser"
        /\ \A k \in DOMAIN dbFiles :
             dbFiles[k].project_id \in DOMAIN dbProjects =>
                 dbProjects[dbFiles[k].project_id].upload_method # "parser"

RowCount(id) == Len(RowsOf(dbFiles, id))

FinalSessionStatus == {"completed", "failed"}

\* C4: a committed Direct project has either none of its ProjectFile rows
\* visible, or all of them together with the final project status, the final
\* session status and counters: no reader sees some but not all of its files.
C4_DirectSingleCommit ==
    \A id \in DOMAIN dbProjects :
        (dbProjects[id].upload_method = "direct" /\ RowCount(id) > 0) =>
            /\ RunEnded
            /\ dbProjects[id].upload_status \in {"completed", "failed"}
            /\ dbSession.status \in FinalSessionStatus
            /\ dbSession.project_id = id
            /\ RowCount(id) = Len(StoredFiles(directLog))
            /\ Len(directLog) = Len(files)

C4_Witness ==
    /\ RunEnded
    /\ \E id \in DOMAIN dbProjects :
         /\ dbProjects[id].upload_method = "direct"
         /\ RowCount(id) = 2
         /\ Len(files) = 3

\* C5: in every state, of the session object and of the stored session row,
\* processed_files + failed_files <= total_files.
C5_CounterInvariant ==
    /\ session.processed_files + session.failed_files <= session.total_files
    /\ dbSession.processed_files + dbSession.failed_files <= dbSession.total_files

C5_Witness ==
    /\ RunEnded
    /\ dbSession.status \in FinalSessionStatus
    /\ dbSession.processed_files = 1
    /\ dbSession.failed_files = 2
    /\ dbSession.total_files = 3

C7_ProjectIdIffProjectRow ==
    (dbSession.project_id # 0) <=> (dbProjects # << >>)

\* C8 (as claimed): at most one Project row is ever created by one run.
C8_AtMostOneProject == Len(dbProjects) <= 1

SessionStep(old, new) ==
    /\ new \in {"absent", "active", "completed", "failed"}
    /\ old = "absent" => new \in {"absent", "active"}
    /\ old \in FinalSessionStatus => new = old

\* C9: the status of a session, of the object and of the stored row, starts
\* active, only moves active -> completed or active -> failed, is never
\* changed once completed or failed, and is never expired.
C9_SessionStateMachine ==
    [][ /\ SessionStep(session.status, session'.status)
        /\ SessionStep(dbSession.status, dbSession'.status) ]_vars

C9_Witness ==
    /\ RunEnded
    /\ dbSession.status = "failed"
    /\ session.status = "failed"
    /\ DirectReturned

----------------------------------------------------------------------------
(* C11 *)

\* extraction succeeded and filtering left no file
NoValidFiles == ExtractError(upload) = "" /\ ExtractProjectFiles(upload) = << >>

\* C11: when filtering leaves zero files the upload fails with "No valid
\* files to process": no strategy runs, no Project row is created, and the
\* session ends failed.
C11_NoValidFilesIsAnError ==
    NoValidFiles =>
        /\ pc \notin {"parser_call", "parser_files", "fallback",
                      "direct_create", "direct_files"}
        /\ dbProjects = << >>
        /\ RunEnded => /\ result.kind = "raised"
                       /\ dbSession.status = "failed"

----------------------------------------------------------------------------
(* C12 *)

\* C12: the caller receives an error if and only if the run produced
\* nothing usable: a Direct loop that failed on every file is reported to
\* the caller as a failure, one that ingested at least one file as a success.
C12_ErrorIffNothingUsable ==
    (RunEnded /\ Len(directLog) = Len(files) /\ files # << >>) =>
        (RouterResponse(result, session).success <=> StoredFiles(directLog) # << >>)

----------------------------------------------------------------------------
(* C13 *)

\* a commit of an ingestion attempt has failed
CommitFailed == txState = "inactive"

\* C13: a failure while committing the writes of an ingestion attempt is
\* fatal: the run ends raising to the caller with the stored session failed,
\* and no other strategy is tried after it.
C13_CommitFailureIsFatal ==
    CommitFailed =>
        /\ pc \in {"fallback", "handler", "done"}
        /\ RunEnded => /\ result.kind = "raised"
                       /\ dbSession.status = "failed"

----------------------------------------------------------------------------
(* C14 *)

\* C14: after a Direct loop over a non-empty file list, no failed file gives
\* session completed and project completed without a warning; some stored
\* and some failed gives session completed, project completed and the
\* warning "{n} files failed to process" with n the failed count; every file
\* failed gives session failed and project failed.  Session status and
\* project status agree, in the objects and in the stored rows.
C14_DirectFinalStatusPolicy ==
    (DirectReturned /\ files # << >>) =>
        LET stored == Len(StoredFiles(directLog))
            failed == Len(directLog) - stored
        IN  /\ Len(directLog) = Len(files)
            /\ session.status = project.upload_status
            /\ dbSession.status = session.status
            /\ dbProjects[project.id].upload_status = project.upload_status
            /\ dbSession.warnings = session.warnings
            /\ failed = 0 =>
                 /\ session.status = "completed"
                 /\ session.warnings = << >>
            /\ (stored > 0 /\ failed > 0) =>
                 /\ session.status = "completed"
                 /\ session.warnings =
                        << [tag |-> "files failed to process", n |-> failed] >>
            /\ stored = 0 => session.status = "failed"

C14_Witness ==
    /\ DirectReturned
    /\ Len(StoredFiles(directLog)) = 1
    /\ Len(directLog) = 3
    /\ session.status = "completed"
    /\ session.warnings # << >>

----------------------------------------------------------------------------
(* C15 *)

\* the parser answered 2xx with success = true and an object or null as data
ParserAnsweredSuccess == response.outcome = "ok" /\ response.data \in {"null", "object"}

\* the file loop of the Parser strategy was stopped by an injected failure,
\* not by the response
InjectedParserLoopFailure ==
    \/ exc.tag = "Simulated failure"
    \/ \E k \in DOMAIN session.errors :
         /\ session.errors[k].tag = "Parser failed"
         /\ session.errors[k].arg # << >>
         /\ session.errors[k].arg[1] = "Simulated failure"

\* C15: whenever the parser answered 2xx with success = true, with an object
\* or null as data, the Parser strategy completes: the run never leaves it
\* by an exception, and it ends with one Project of method parser and status
\* completed holding the payload, one ProjectFile per input file carrying
\* the payload keyed by its relative path or null, the session completed,
\* processed_files equal to the number of files and project_id set.
C15_ParserSuccessCompletes ==
    (ParserAnsweredSuccess /\ ~InjectedParserLoopFailure) =>
        /\ pc \in {"parser_files", "done"}
        /\ RunEnded =>
             /\ result.kind = "returned"
             /\ Len(dbProjects) = 1
             /\ dbProjects[1].upload_method = "parser"
             /\ dbProjects[1].upload_status = "completed"
             /\ dbProjects[1].parser_response = response.data
             /\ Len(RowsOf(dbFiles, 1)) = Len(files)
             /\ \A k \in DOMAIN files :
                    RowsOf(dbFiles, 1)[k] = ParserProjectFile(project, response, files[k])
             /\ dbSession.status = "completed"
             /\ dbSession.processed_files = Len(files)
             /\ dbSession.project_id = 1

----------------------------------------------------------------------------
(* C16 *)

\* the session as the Parser strategy found it: created at line 66, counted
\* at lines 73-74
SessionAtStrategyEntry == [NewSession("parser") EXCEPT !.total_files = Len(files)]

----------------------------------------------------------------------------
(* C17 *)

\* C17, as stated: with the parser disabled no request is sent and no parser
\* error is recorded, and the Direct strategy starts because the Parser
\* strategy has failed with ParserDisabled.
C17_StrategyRaisesParserDisabled ==
    [][ ~parserEnabled =>
          /\ response'.outcome = "none"
          /\ ~HasParserFailedEntry(session'.errors)
          /\ pc' = "direct_create" =>
                 (pc = "fallback" /\ exc.tag = "ParserDisabled") ]_vars

\* C17, amended: with the parser disabled no request is sent and no parser
\* error is recorded, because the orchestrator never enters the Parser
\* strategy: the Direct strategy starts right after extraction.
C17_DisabledSkipsParserStrategy ==
    [][ ~parserEnabled =>
          /\ response'.outcome = "none"
          /\ ~HasParserFailedEntry(session'.errors)
          /\ pc' \notin {"parser_call", "parser_files", "fallback"}
          /\ pc' = "direct_create" => pc = "extract" ]_vars

C17_Witness ==
    /\ ~parserEnabled
    /\ DirectReturned
    /\ files # << >>
    /\ response.outcome = "none"
    /\ session.errors = << >>

----------------------------------------------------------------------------
(* C18 *)

\* C18: after any run over at least one file that returns a Project, the
\* session's upload_method, in the object, in the stored row and in the
\* response to the caller, equals the upload method of that Project.
C18_MethodNamesTheStrategy ==
    (RunEnded /\ result.kind = "returned" /\ files # << >>) =>
        /\ session.upload_method = project.upload_method
        /\ dbSession.upload_method = dbProjects[result.project_id].upload_method
        /\ RouterResponse(result, session).upload_method = project.upload_method

----------------------------------------------------------------------------
(* C19 *)

\* the raw payload is strictly larger than max_project_size megabytes
OverCap == upload.size > max_project_size * BytesPerMB

\* C19: the upload fails with the too-large error exactly when its raw size
\* is strictly greater than the cap.  An oversized upload is rejected before
\* the archive is opened (never with the archive's own error), no file is
\* extracted, no strategy runs, no Project row is created, and the run ends
\* raising with the session failed.
C19_PayloadTooLarge ==
    /\ exc.tag = "FileTooLarge" => OverCap
    /\ OverCap =>
         /\ pc \in {"start", "extract", "handler", "done"}
         /\ pc \in {"handler", "done"} => exc.tag = "FileTooLarge"
         /\ files = << >>
         /\ response.outcome = "none"
         /\ directLog = << >>
         /\ project = NoProject
         /\ dbProjects = << >>
         /\ dbFiles = << >>
         /\ RunEnded => /\ result.kind = "raised"
                        /\ RouterResponse(result, session).success = FALSE
                        /\ session.status = "failed"
                        /\ dbSession.status = "failed"

\* an oversized upload that is not even a zip has been rejected for its size
C19_Witness ==
    /\ RunEnded
    /\ OverCap
    /\ upload.format = "tar"
    /\ exc.tag = "FileTooLarge"
    /\ dbSession.status = "failed"

----------------------------------------------------------------------------
(* C20 *)

\* the order of the steps of one run, as pairs of positions
StepOrder ==
    { << "start", "extract" >>,
      << "extract", "handler" >>,
      << "extract", "parser_call" >>,
      << "extract", "direct_create" >>,
      << "parser_call", "parser_files" >>,
      << "parser_call", "fallback" >>,
      << "parser_files", "parser_files" >>,
      << "parser_files", "fallback" >>,
      << "parser_files", "done" >>,
      << "fallback", "direct_create" >>,
      << "direct_create", "direct_files" >>,
      << "direct_files", "direct_files" >>,
      << "direct_files", "done" >>,
      << "handler", "done" >> }

\* C20: every step of a run follows the order extraction and
\* classification, parser attempt, fallback, Direct, end.  The Parser
\* strategy starts only right after extraction, with the parser enabled and
\* nothing attempted yet; the Direct strategy starts only right after
\* extraction with the parser disabled, or from the fallback of a Parser
\* attempt that has failed, never when a Direct project exists already; a
\* Parser success ends the run.  No position is entered twice, so each
\* strategy is attempted at most once.
C20_StepOrder ==
    [][ /\ << pc, pc' >> \in StepOrder
        /\ pc' = "parser_call" =>
             /\ pc = "extract"
             /\ parserEnabled
             /\ response.outcome = "none"
             /\ files' = ExtractProjectFiles(upload)
             /\ dbProjects = << >>
        /\ pc' = "direct_create" =>
             /\ \/ pc = "extract" /\ ~parserEnabled /\ response.outcome = "none"
                \/ pc = "fallback" /\ parserEnabled /\ response.outcome # "none"
             /\ files' = ExtractProjectFiles(upload)
             /\ directLog = << >>
             /\ \A k \in DOMAIN dbProjects : dbProjects[k].upload_method = "parser"
        /\ (pc = "parser_files" /\ pc' = "done") =>
             /\ result'.kind = "returned"
             /\ directLog' = << >> ]_vars

\* a run that tried the parser, fell back, and ended in the Direct strategy
C20_Witness ==
    /\ RunEnded
    /\ parserEnabled
    /\ response.outcome # "none"
    /\ directLog # << >>
    /\ Len(dbProjects) = 2
    /\ dbProjects[1].upload_method = "parser"
    /\ dbProjects[2].upload_method = "direct"

----------------------------------------------------------------------------
(* C21 *)

\* the skip rule as the specification words it: a skip substring anywhere in
\* the path, or a basename starting with '.'
SkipRuleOfSpec(path) ==
    \/ \E pattern \in skip_patterns : Contains(path, pattern)
    \/ StartsWith(PathName(path), << "." >>)

\* the paths of the files handed to the strategies
ExtractedPaths == { files[k].relative_path : k \in DOMAIN files }

\* C21: once a zip has been extracted, a readable entry is missing from the
\* extractor's output if and only if its path contains a skip substring or
\* its basename starts with '.', at any directory depth (an entry that is
\* kept must still pass the extension filter to reach the file list).
C21_ArchiveSkipRule ==
    (pc \notin {"start", "extract", "handler"} /\ upload.format = "zip") =>
        \A k \in DOMAIN upload.entries :
            LET e == upload.entries[k]
            IN  (e.readable /\ PassesFilter(ArchiveFileData(e))) =>
                    (e.path \notin ExtractedPaths <=> SkipRuleOfSpec(e.path))

----------------------------------------------------------------------------
(* C22 *)

\* what the extractor hands to the extension filter
ExtractedBeforeFilter ==
    IF IsArchive(upload.filename)
    THEN ExtractArchive(upload.entries)
    ELSE << SingleFileData(upload) >>

\* the extension rule, stated on a file's name
ExtensionAllowed(file_data) ==
    LET ext == Lower(PathSuffix(file_data.filename))
    IN  ext = << >> \/ ext \in allowed_extensions

\* C22: when a strategy is about to start, the file list is exactly the
\* extracted files whose lowercase extension is allowed or that have no
\* extension, in extraction order; total_files, in the object and in the
\* stored row, is the length of that list; and no error or warning has been
\* recorded for the files that were dropped.
C22_ClassifiedFileList ==
    pc \in {"parser_call", "direct_create"} /\ response.outcome = "none" =>
        /\ files = SelectSeq(ExtractedBeforeFilter, ExtensionAllowed)
        /\ session.total_files = Len(files)
        /\ dbSession.total_files = Len(files)
        /\ session.errors = << >>
        /\ session.warnings = << >>
        /\ dbSession.errors = << >>

\* an archive from which the filter dropped a file and kept two, one of them
\* without an extension
C22_Witness ==
    /\ pc \in {"parser_call", "direct_create"}
    /\ response.outcome = "none"
    /\ Len(ExtractedBeforeFilter) = 3
    /\ Len(files) = 2
    /\ \E k \in DOMAIN files : PathSuffix(files[k].filename) = << >>

----------------------------------------------------------------------------
(* C23 *)

\* allow-lists a configuration may hold
AllowLists ==
    SUBSET { <<".","c","b","l">>, <<".","x","y","z">> } \cup { allowed_extensions }

\* C23: for every allow-list, filtering the list the extractor is about to
\* hand over and then filtering the result again gives the same list; and
\* once a run has its file list, the configured filter leaves it unchanged.
C23_FilterIdempotent ==
    /\ pc = "extract" =>
         \A allow \in AllowLists :
            LET once == FilterFilesWith(allow, ExtractedBeforeFilter)
            IN  FilterFilesWith(allow, once) = once
    /\ pc \notin {"start", "extract", "handler"} => FilterFiles(files) = files

\* the filter has dropped one file of an archive and kept two
C23_Witness ==
    /\ pc \in {"parser_call", "direct_create"}
    /\ Len(files) = 2
    /\ Len(ExtractedBeforeFilter) = 3
    /\ FilterFiles(files) = files
    /\ FilterFilesWith({ <<".","x","y","z">> }, ExtractedBeforeFilter) # files

----------------------------------------------------------------------------
(* C25 *)

\* the files of the Direct loop whose record creation raised, in order
RECURSIVE FailedFiles(_)
FailedFiles(log) ==
    IF log = << >> THEN << >>
    ELSE IF Head(log).stored
         THEN FailedFiles(Tail(log))
         ELSE << Head(log).file >> \o FailedFiles(Tail(log))

\* the "Failed to process ..." entries of an error list, in order
PerFileErrors(errors) == SelectSeq(errors, LAMBDA m : m.tag = "Failed to process")

\* one "Failed to process {filename}" entry per failed file, in file order
PerFileErrorsMatch(errors) ==
    PerFileErrors(errors) =
        [k \in DOMAIN FailedFiles(directLog) |->
             Msg("Failed to process", FailedFiles(directLog)[k].filename)]

\* C25: during the Direct loop every failed file has exactly one "Failed to
\* process {filename}" entry in the session errors, in file order, and no
\* ProjectFile; the loop goes on to the last file; and when the strategy has
\* returned, the session's errors, as returned and as stored, hold as many
\* such entries as failed_files says.
C25_PerFileFailureHandledAlone ==
    /\ pc = "direct_files" =>
         /\ PerFileErrorsMatch(session.errors)
         /\ failed_count = Len(FailedFiles(directLog))
         /\ Len(pendingFiles) <= Len(StoredFiles(directLog)) + Len(dbFiles)
         /\ Len(directLog) = idx - 1
    /\ DirectReturned =>
         /\ Len(directLog) = Len(files)
         /\ PerFileErrorsMatch(session.errors)
         /\ Len(PerFileErrors(session.errors)) = session.failed_files
         /\ PerFileErrorsMatch(dbSession.errors)
         /\ Len(PerFileErrors(dbSession.errors)) = dbSession.failed_files

----------------------------------------------------------------------------
(* C26 *)

\* C26: when a run has ended, by returning or by raising, the stored session
\* status is completed or failed, never active, also when a commit or the
\* parser call failed along the way.
C26_EndedSessionIsFinal ==
    RunEnded => dbSession.status \in FinalSessionStatus

----------------------------------------------------------------------------
(* C27 *)

\* C27: when a run has ended, no Project row it created is left in status
\* processing: each is completed or failed.
C27_NoProjectLeftProcessing ==
    RunEnded =>
        \A id \in DOMAIN dbProjects :
            dbProjects[id].upload_status \in {"completed", "failed"}

----------------------------------------------------------------------------
(* C28 *)

\* list a is an initial part of list b
IsPrefix(a, b) == Len(a) <= Len(b) /\ SubSeq(b, 1, Len(a)) = a

\* in an error list the parser-failure entry, if any, comes before every
\* per-file entry
ParserEntryFirst(errors) ==
    \A i, j \in DOMAIN errors :
        (errors[i].tag = "Parser failed" /\ errors[j].tag = "Failed to process") => i < j

\* C28: every step of a run leaves the entries already in the session's
\* error list and warning list in place and in order, in the object and in
\* the stored row: lists only grow at the end; and the parser-failure entry
\* precedes all per-file entries.
C28_ListsAppendOnly ==
    [][ /\ IsPrefix(session.errors, session'.errors)
        /\ IsPrefix(session.warnings, session'.warnings)
        /\ IsPrefix(dbSession.errors, dbSession'.errors)
        /\ IsPrefix(dbSession.warnings, dbSession'.warnings)
        /\ ParserEntryFirst(session'.errors)
        /\ ParserEntryFirst(dbSession'.errors) ]_vars

\* a fallback followed by two per-file failures and a warning
C28_Witness ==
    /\ DirectReturned
    /\ Len(session.errors) = 3
    /\ session.errors[1].tag = "Parser failed"
    /\ session.errors[3].tag = "Failed to process"
    /\ session.warnings # << >>

----------------------------------------------------------------------------
(* C29 *)

\* the stored ProjectFile rows whose bytes were not valid UTF-8: the rows of
\* a non-UTF-8 single-file upload, or of a non-UTF-8 entry of a zip
RowFromInvalidUtf8(row) ==
    \/ upload.format = "plain" /\ ~upload.utf8
    \/ /\ upload.format = "zip"
       /\ \E k \in DOMAIN upload.entries :
            upload.entries[k].path = row.relative_path /\ ~upload.entries[k].utf8

\* C29: a stored file whose bytes are not valid UTF-8 is marked binary and
\* has line count 0, whether it came from an archive or was uploaded alone;
\* a stored file has a non-zero line count only if its bytes decoded.
C29_InvalidUtf8IsBinary ==
    \A k \in DOMAIN dbFiles :
        /\ RowFromInvalidUtf8(dbFiles[k]) => (dbFiles[k].is_binary /\ dbFiles[k].loc = 0)
        /\ dbFiles[k].loc # 0 => ~RowFromInvalidUtf8(dbFiles[k])

----------------------------------------------------------------------------
(* C30 *)

\* the upload is named as an archive and its bytes are a valid archive of
\* the format its name announces
ValidArchiveOfItsFormat ==
    \/ EndsWith(Lower(upload.filename), <<".","z","i","p">>) /\ upload.format = "zip"
    \/ EndsWith(Lower(upload.filename), <<".","t","a","r">>) /\ upload.format = "tar"

\* C30: an upload within the size cap that is a valid archive of the format
\* its suffix announces is expanded: extraction does not fail, and the file
\* list holds its readable entries that pass the skip rules and the filter,
\* an unreadable entry being dropped and the others kept.
C30_ArchiveExpanded ==
    (ValidArchiveOfItsFormat /\ ~OverCap) =>
        /\ pc # "handler"
        /\ (RunEnded => result.kind = "returned")
        /\ pc \notin {"start", "extract"} =>
             files = SelectSeq(ExtractArchive(upload.entries), ExtensionAllowed)

----------------------------------------------------------------------------
(* C24 *)

\* request r has created its Project
HasProject(r) == runs[r].project.id # 0

\* what a request owns: its locals, its upload_sessions row, and the
\* projects and project_files rows it wrote
OwnedBy(r, rs, st) ==
    [locals   |-> rs[r],
     session  |-> st.sessions[r],
     projects |-> { k \in DOMAIN st.projects : st.projects[k].by = r },
     prows    |-> SelectSeq(st.projects, LAMBDA row : row.by = r),
     files    |-> SelectSeq(st.files, LAMBDA row : row.by = r)]

\* each request has its own Project, its session points to it, and the
\* ProjectFiles it created belong to it
C24_OwnProject ==
    /\ \A r \in Runs :
         /\ HasProject(r) =>
              /\ runs[r].project.id \in DOMAIN store.projects
              /\ store.projects[runs[r].project.id].by = r
         /\ runs[r].session.project_id # 0 =>
              (HasProject(r) /\ runs[r].session.project_id = runs[r].project.id)
         /\ store.sessions[r].project_id # 0 =>
              (HasProject(r) /\ store.sessions[r].project_id = runs[r].project.id)
         /\ \A k \in DOMAIN runs[r].pending :
              HasProject(r) /\ runs[r].pending[k].project_id = runs[r].project.id
    /\ \A r1, r2 \in Runs :
         (r1 # r2 /\ HasProject(r1) /\ HasProject(r2)) =>
             runs[r1].project.id # runs[r2].project.id
    /\ \A k \in DOMAIN store.files :
         /\ store.files[k].row.project_id \in DOMAIN store.projects
         /\ store.projects[store.files[k].row.project_id].by = store.files[k].by
         /\ store.files[k].row.project_id = runs[store.files[k].by].project.id

\* a step of one request changes nothing the other request owns
C24_StepTouchesOneRun ==
    \A r \in Runs :
        OwnedBy(r, runs', store') # OwnedBy(r, runs, store) =>
            \A o \in Runs \ {r} : OwnedBy(o, runs', store') = OwnedBy(o, runs, store)

====
